---- MODULE Spec2Model ----
(***************************************************************************)
(* Model of vsgenptvs.interpreter.PTVSInterpreter: the factories           *)
(* from_python_installation, from_virtual_environment, from_section and    *)
(* from_registry_key, and the catalog operations resolve and register,     *)
(* against an in-memory file system and Windows registry.                  *)
(*                                                                         *)
(* A path is a sequence of segments; an absolute path starts with the      *)
(* drive segment.  A GUID is [hex, str, upper]: str = FALSE is a uuid.UUID *)
(* object, str = TRUE its text form (upper: written in upper case).        *)
(* An optional value (None or a value) is a sequence of length 0 or 1.     *)
(***************************************************************************)
EXTENDS Integers, Sequences, FiniteSets, TLC

\* ------------------------------------------------------------------ bounds
\* uuid.uuid1() never repeats; the model draws fresh identities up to MaxUuid.
MaxUuid == 4
\* Handles a tracing runtime may leave unfinalized before its collector runs.
MaxHandles == 4

\* ------------------------------------------------------------------- paths
Drive == "C:"
Cwd == <<Drive, "work">>

\* str.lower() on one path segment.
LowerSeg(s) ==
    CASE s = "C:" -> "c:"
      [] s = "Python39" -> "python39"
      [] s = "Py27" -> "py27"
      [] s = "Scripts" -> "scripts"
      [] s = "Lib" -> "lib"
      [] s = "EnvHome" -> "envhome"
      [] s = "EnvBoth" -> "envboth"
      [] s = "EnvOrig" -> "envorig"
      [] s = "EnvNoHome" -> "envnohome"
      [] s = "EnvEmpty" -> "envempty"
      [] s = "EnvBare" -> "envbare"
      [] s = "EnvNoExe" -> "envnoexe"
      [] s = "EnvLost" -> "envlost"
      [] OTHER -> s

lower(p) == [i \in DOMAIN p |-> LowerSeg(p[i])]

isabs(p) == Len(p) > 0 /\ LowerSeg(p[1]) = LowerSeg(Drive)

join(a, b) == IF isabs(b) THEN b ELSE a \o b

abspath(p) == IF isabs(p) THEN p ELSE Cwd \o p

dirname(p) == IF Len(p) = 0 THEN <<>> ELSE SubSeq(p, 1, Len(p) - 1)

\* basename as a text: the empty text is the empty sequence.
basename(p) == IF Len(p) = 0 THEN <<>> ELSE <<p[Len(p)]>>

\* ------------------------------------------------------------- file system
Python39 == <<Drive, "Python39">>
Py27 == <<Drive, "Py27">>
EnvHome == <<Drive, "envs", "EnvHome">>
EnvBoth == <<Drive, "envs", "EnvBoth">>
EnvOrig == <<Drive, "envs", "EnvOrig">>
EnvNoHome == <<Drive, "envs", "EnvNoHome">>
EnvEmpty == <<Drive, "envs", "EnvEmpty">>
EnvBare == <<Drive, "envs", "EnvBare">>
EnvNoExe == <<Drive, "envs", "EnvNoExe">>
EnvLost == <<Drive, "envs", "EnvLost">>
Missing == <<Drive, "Gone">>

InstallDirs == {Python39, Py27, Missing}
EnvDirs == {EnvHome, EnvBoth, EnvOrig, EnvNoHome, EnvEmpty, EnvBare, EnvNoExe, EnvLost}

\* The files os.path.exists finds.  Python39 and Py27 are installations
\* (Py27 without pythonw.exe); Missing is no installation.
Files ==
    { Python39 \o <<"python.exe">>, Python39 \o <<"pythonw.exe">>,
      Py27 \o <<"python.exe">>,
      EnvHome \o <<"Scripts", "python.exe">>, EnvHome \o <<"Scripts", "pythonw.exe">>,
      EnvHome \o <<"pyvenv.cfg">>,
      EnvBoth \o <<"Scripts", "python.exe">>, EnvBoth \o <<"pyvenv.cfg">>,
      EnvBoth \o <<"Lib", "orig-prefix.txt">>,
      EnvOrig \o <<"Scripts", "python.exe">>, EnvOrig \o <<"Lib", "orig-prefix.txt">>,
      EnvNoHome \o <<"Scripts", "python.exe">>, EnvNoHome \o <<"pyvenv.cfg">>,
      EnvEmpty \o <<"Scripts", "python.exe">>, EnvEmpty \o <<"Lib", "orig-prefix.txt">>,
      EnvBare \o <<"Scripts", "python.exe">>,
      EnvNoExe \o <<"pyvenv.cfg">>,
      EnvLost \o <<"Scripts", "python.exe">>, EnvLost \o <<"pyvenv.cfg">> }

exists(p) == p \in Files

\* First line of Lib/orig-prefix.txt, as an optional path (<<>>: the file is empty).
OrigPrefixLine(root) ==
    CASE root = EnvBoth -> <<Py27>>
      [] root = EnvOrig -> <<Py27>>
      [] OTHER -> <<>>

\* The value of the last "home = ..." line of pyvenv.cfg, as an optional path
\* (<<>>: the file has no such line).
PyvenvHome(root) ==
    CASE root = EnvHome -> <<Python39>>
      [] root = EnvBoth -> <<Python39>>
      [] root = EnvNoExe -> <<Python39>>
      [] root = EnvLost -> <<Missing>>
      [] OTHER -> <<>>

\* What the interpreter binary prints for the version probe; "" when the
\* subprocess fails or prints nothing (the probe uses a Python 2 print statement).
python_version(python) ==
    CASE python = Py27 \o <<"python.exe">> -> "2.7"
      [] python = EnvOrig \o <<"Scripts", "python.exe">> -> "2.7"
      [] OTHER -> ""

\* What the interpreter binary prints for the architecture probe.
python_architecture(python) ==
    CASE python = Python39 \o <<"python.exe">> -> "x64"
      [] python = Py27 \o <<"python.exe">> -> "x86"
      [] python = EnvHome \o <<"Scripts", "python.exe">> -> "x64"
      [] python = EnvOrig \o <<"Scripts", "python.exe">> -> "x86"
      [] OTHER -> ""

\* -------------------------------------------------------------- identities
\* A uuid.UUID object.
UuidObj(n) == [hex |-> n, str |-> FALSE, upper |-> FALSE]

\* uuid.UUID(text): parsing accepts either case and yields the UUID object.
UUID(g) == UuidObj(g.hex)

\* VSGRegisterable.lower(value): the text of the value, lower-cased.
GuidLower(g) == [hex |-> g.hex, str |-> TRUE, upper |-> FALSE]

\* '{{{0}}}'.format(text): the entry key's last segment.
Braced(g) == <<"{", g, "}">>

\* os.path.basename(keyname)[1:-1]: the segment without its first and last character.
Unbraced(name) == name[2]

\* ---------------------------------------------------------------- registry
None == <<>>
Some(x) == <<x>>

Versions == {"14.0", "15.0"}

\* The value names register writes, in the order it writes them.
RegisterFields ==
    <<"Architecture", "Description", "InterpreterPath", "Version",
      "WindowsInterpreterPath", "PathEnvironmentVariable">>

\* The value names from_registry_key reads, in order.
QueryFields ==
    <<"Architecture", "Description", "InterpreterPath", "Version",
      "WindowsInterpreterPath", "PathEnvironmentVariable">>

\* A catalog entry with every value written.
Entry(guidtext, path, desc, ver, arch) ==
    [ name |-> Braced(guidtext),
      present |-> {RegisterFields[j] : j \in 1..Len(RegisterFields)},
      Architecture |-> arch,
      Description |-> desc,
      InterpreterPath |-> path,
      Version |-> ver,
      WindowsInterpreterPath |-> dirname(path),
      PathEnvironmentVariable |-> "PYTHONPATH" ]

\* A created key with no value set yet.
EmptyEntry(name) ==
    [ name |-> name, present |-> {},
      Architecture |-> "", Description |-> <<>>, InterpreterPath |-> <<>>,
      Version |-> "", WindowsInterpreterPath |-> <<>>,
      PathEnvironmentVariable |-> "" ]

\* I/O faults of the registry: at most one call of an operation fails.
\*   create: CreateKey; info: QueryInfoKey; enum: EnumKey of child `at`;
\*   open: OpenKey of child `at`; query / set: the value `field` (of child `at`).
NoFault == [kind |-> "none", at |-> 0, field |-> 0]

\* The fault as seen by the load of child i.
FaultAt(io, i) == IF io.at = i THEN io ELSE NoFault

Get(datadict, key, default) ==
    IF key \in DOMAIN datadict THEN datadict[key] ELSE default

\* Position of the key `name` among the children (0: no such key).  Registry key
\* names compare case-insensitively.
RegFind(entries, name) ==
    IF \E i \in 1..Len(entries) : entries[i].name[2].hex = name[2].hex
    THEN CHOOSE i \in 1..Len(entries) : entries[i].name[2].hex = name[2].hex
    ELSE 0

\* ------------------------------------------------------------- descriptors
_import(datadict, uuid1) ==
    LET GUID == Get(datadict, "Id", uuid1)
        Path == Get(datadict, "Path", <<>>)
        InterpreterPath == Get(datadict, "InterpreterPath", <<>>)
        WindowsInterpreterPath == Get(datadict, "WindowsInterpreterPath", <<>>)
    IN [ GUID |-> GUID,
         BaseInterpreter |-> Get(datadict, "BaseInterpreter", GUID),
         Architecture |-> Get(datadict, "Architecture", ""),
         Version |-> Get(datadict, "Version", ""),
         Path |-> Path,
         Description |-> Get(datadict, "Description", <<>>),
         InterpreterPath |-> InterpreterPath,
         InterpreterAbsPath |->
            Get(datadict, "InterpreterAbsPath",
                IF isabs(InterpreterPath) THEN InterpreterPath
                ELSE abspath(join(Path, InterpreterPath))),
         WindowsInterpreterPath |-> WindowsInterpreterPath,
         WindowsInterpreterAbsPath |->
            Get(datadict, "WindowsInterpreterAbsPath",
                IF isabs(WindowsInterpreterPath) THEN WindowsInterpreterPath
                ELSE abspath(join(Path, WindowsInterpreterPath))),
         PathEnvironmentVariable |-> Get(datadict, "PathEnvironmentVariable", "PYTHONPATH"),
         VSVersion |-> IF "VSVersion" \in DOMAIN datadict
                       THEN Some(datadict["VSVersion"]) ELSE None ]

\* How many values the read loop gets before QueryValueEx fails.
RECURSIVE QueryCount(_, _, _)
QueryCount(entry, io, k) ==
    IF k > Len(QueryFields) THEN Len(QueryFields)
    ELSE IF QueryFields[k] \notin entry.present \/ (io.kind = "query" /\ io.field = k)
         THEN k - 1
         ELSE QueryCount(entry, io, k + 1)

\* from_registry_key(keyname), keyname = [vs, name], against the registry rg.
\* res: the descriptor or None; leaked: handles opened and not closed by CloseKey.
from_registry_key(rg, keyname, io) ==
    LET i == RegFind(rg.entries[keyname.vs], keyname.name)
    IN IF rg.keys[keyname.vs] # "interp" \/ i = 0 \/ io.kind = "open"
       THEN [res |-> None, leaked |-> 0]
       ELSE
         LET entry == rg.entries[keyname.vs][i]
             k == QueryCount(entry, io, 1)
             read == {QueryFields[j] : j \in 1..k}
             args == [x \in read \cup {"Path", "Id"} |->
                        CASE x = "Path" -> dirname(entry.InterpreterPath)
                          [] x = "Id" -> Unbraced(keyname.name)
                          [] OTHER -> entry[x]]
         IN [ res |-> IF "InterpreterPath" \in read
                      THEN Some(_import(args, UuidObj(0))) ELSE None,
              leaked |-> IF k = Len(QueryFields) THEN 0 ELSE 1 ]

\* --------------------------------------------------------- resolve, register
\* The enumeration of resolve from child i on, acc handles being open so far.
\* examined: the children loaded.  ResolveChild is the loop body once child i
\* was loaded (ld: what from_registry_key returned).
RECURSIVE ResolveLoop(_, _, _, _, _, _)
\* The loop body with the stored path compared as written, without lower().
ResolveChild_CaseSensitive(self, rg, vs, io, i, acc, ld) ==
    IF ld.res # None
       /\ ld.res[1].InterpreterAbsPath = self.InterpreterAbsPath
    THEN [ raised |-> "",
           self |-> [self EXCEPT !.GUID = UUID(ld.res[1].GUID),
                                 !.BaseInterpreter = UUID(ld.res[1].GUID)],
           reg |-> rg, leaked |-> acc + ld.leaked, examined |-> i ]
    ELSE ResolveLoop(self, rg, vs, io, i + 1, acc + ld.leaked)

ResolveChild(self, rg, vs, io, i, acc, ld) ==
    IF ld.res # None
       /\ lower(ld.res[1].InterpreterAbsPath) = lower(self.InterpreterAbsPath)
    THEN [ raised |-> "",
           self |-> [self EXCEPT !.GUID = UUID(ld.res[1].GUID),
                                 !.BaseInterpreter = UUID(ld.res[1].GUID)],
           reg |-> rg, leaked |-> acc + ld.leaked, examined |-> i ]
    ELSE ResolveLoop(self, rg, vs, io, i + 1, acc + ld.leaked)

ResolveLoop(self, rg, vs, io, i, acc) ==
    IF i > Len(rg.entries[vs]) \/ (io.kind = "enum" /\ io.at = i)
    THEN [raised |-> "", self |-> self, reg |-> rg, leaked |-> acc, examined |-> i - 1]
    ELSE ResolveChild(self, rg, vs, io, i, acc,
                      from_registry_key(rg, [vs |-> vs, name |-> rg.entries[vs][i].name],
                                        FaultAt(io, i)))

\* CreateKey on the Interpreters key of a version whose PythonTools key exists.
CreateInterpretersKey(rg, vs) == [rg EXCEPT !.keys[vs] = "interp"]

\* resolve() without the OpenKey test of the PythonTools key.
resolve_NoToolsCheck(self, rg, io) ==
    IF self.VSVersion = None
    THEN [raised |-> "ValueError", self |-> self, reg |-> rg, leaked |-> 0, examined |-> 0]
    ELSE IF io.kind = "create"
    THEN [raised |-> "WindowsError", self |-> self, reg |-> rg, leaked |-> 1, examined |-> 0]
    ELSE IF io.kind = "info"
    THEN [raised |-> "", self |-> self, reg |-> CreateInterpretersKey(rg, self.VSVersion[1]),
          leaked |-> 2, examined |-> 0]
    ELSE ResolveLoop(self, CreateInterpretersKey(rg, self.VSVersion[1]),
                     self.VSVersion[1], io, 1, 2)

\* self.resolve().  raised: "" or the exception that reaches the caller;
\* leaked: handles opened and never passed to CloseKey.
resolve(self, rg, io) ==
    IF self.VSVersion = None
    THEN [raised |-> "ValueError", self |-> self, reg |-> rg, leaked |-> 0, examined |-> 0]
    ELSE IF rg.keys[self.VSVersion[1]] = "absent"
    THEN [raised |-> "ValueError", self |-> self, reg |-> rg, leaked |-> 0, examined |-> 0]
    ELSE IF io.kind = "create"
    THEN [raised |-> "WindowsError", self |-> self, reg |-> rg, leaked |-> 1, examined |-> 0]
    ELSE IF io.kind = "info"
    THEN [raised |-> "", self |-> self, reg |-> CreateInterpretersKey(rg, self.VSVersion[1]),
          leaked |-> 2, examined |-> 0]
    ELSE ResolveLoop(self, CreateInterpretersKey(rg, self.VSVersion[1]),
                     self.VSVersion[1], io, 1, 2)

\* SetValueEx of InterpreterPath storing self.InterpreterPath as given.
WriteValues_RelativePath(entry, self, k) ==
    [ name |-> entry.name,
      present |-> entry.present \cup {RegisterFields[j] : j \in 1..k},
      Architecture |-> IF k >= 1 THEN self.Architecture ELSE entry.Architecture,
      Description |-> IF k >= 2 THEN self.Description ELSE entry.Description,
      InterpreterPath |-> IF k >= 3 THEN self.InterpreterPath ELSE entry.InterpreterPath,
      Version |-> IF k >= 4 THEN self.Version ELSE entry.Version,
      WindowsInterpreterPath |->
          IF k >= 5 THEN self.WindowsInterpreterAbsPath ELSE entry.WindowsInterpreterPath,
      PathEnvironmentVariable |->
          IF k >= 6 THEN self.PathEnvironmentVariable ELSE entry.PathEnvironmentVariable ]

\* The entry after SetValueEx of the first k values of self.
WriteValues(entry, self, k) ==
    [ name |-> entry.name,
      present |-> entry.present \cup {RegisterFields[j] : j \in 1..k},
      Architecture |-> IF k >= 1 THEN self.Architecture ELSE entry.Architecture,
      Description |-> IF k >= 2 THEN self.Description ELSE entry.Description,
      InterpreterPath |-> IF k >= 3 THEN self.InterpreterAbsPath ELSE entry.InterpreterPath,
      Version |-> IF k >= 4 THEN self.Version ELSE entry.Version,
      WindowsInterpreterPath |->
          IF k >= 5 THEN self.WindowsInterpreterAbsPath ELSE entry.WindowsInterpreterPath,
      PathEnvironmentVariable |->
          IF k >= 6 THEN self.PathEnvironmentVariable ELSE entry.PathEnvironmentVariable ]

\* The name of the entry key register writes.
interpreter_regkey_name(self) ==
    [vs |-> self.VSVersion[1], name |-> Braced(GuidLower(self.GUID))]

\* The registry after CreateKey of the entry key and SetValueEx of the first k
\* values; at: where the key is among the children (0: it is created).
Written(self, rg, vs, name, at, k) ==
    [rg EXCEPT !.keys[vs] = "interp",
               !.entries[vs] =
                  IF at = 0
                  THEN Append(rg.entries[vs], WriteValues(EmptyEntry(name), self, k))
                  ELSE [rg.entries[vs] EXCEPT ![at] = WriteValues(rg.entries[vs][at], self, k)]]

\* How many values register sets before SetValueEx fails.
SetCount(io) == IF io.kind = "set" THEN io.field - 1 ELSE Len(RegisterFields)

\* self.register().  ret: the boolean returned when nothing is raised.
register(self, rg, io) ==
    IF self.VSVersion = None
    THEN [raised |-> "ValueError", ret |-> FALSE, reg |-> rg, leaked |-> 0, written |-> 0]
    ELSE IF rg.keys[self.VSVersion[1]] = "absent"
    THEN [raised |-> "ValueError", ret |-> FALSE, reg |-> rg, leaked |-> 0, written |-> 0]
    ELSE IF io.kind = "create"
    THEN [raised |-> "", ret |-> FALSE, reg |-> rg, leaked |-> 1, written |-> 0]
    ELSE [ raised |-> "",
           ret |-> (SetCount(io) = Len(RegisterFields)),
           reg |-> Written(self, rg, self.VSVersion[1], interpreter_regkey_name(self).name,
                           RegFind(rg.entries[self.VSVersion[1]],
                                   interpreter_regkey_name(self).name),
                           SetCount(io)),
           leaked |-> IF SetCount(io) = Len(RegisterFields) THEN 1 ELSE 2,
           written |-> SetCount(io) ]

\* ---------------------------------------------------------------- factories
\* Keyword arguments are a record of optional values.
NoKwargs == [VSVersion |-> None, Description |-> None]

KwargKeys(kwargs) ==
    {k \in {"VSVersion", "Description"} : kwargs[k] # None}

\* The keyword dictionary with the whole root as the default Description.
InstallationArgs_RootDescription(root, python, kwargs) ==
    [x \in KwargKeys(kwargs) \cup {"Path", "InterpreterPath", "Description"}
           \cup (IF exists(join(root, <<"pythonw.exe">>))
                 THEN {"WindowsInterpreterPath"} ELSE {})
           \cup (IF python_version(python) # "" THEN {"Version"} ELSE {})
           \cup (IF python_architecture(python) # "" THEN {"Architecture"} ELSE {}) |->
        CASE x = "Path" -> root
          [] x = "InterpreterPath" -> <<"python.exe">>
          [] x = "Description" ->
               IF kwargs.Description # None THEN kwargs.Description[1] ELSE root
          [] x = "WindowsInterpreterPath" -> <<"pythonw.exe">>
          [] x = "Version" -> python_version(python)
          [] x = "Architecture" -> python_architecture(python)
          [] OTHER -> kwargs[x][1]]

\* The keyword dictionary from_python_installation passes to the constructor.
InstallationArgs(root, python, kwargs) ==
    [x \in KwargKeys(kwargs) \cup {"Path", "InterpreterPath", "Description"}
           \cup (IF exists(join(root, <<"pythonw.exe">>))
                 THEN {"WindowsInterpreterPath"} ELSE {})
           \cup (IF python_version(python) # "" THEN {"Version"} ELSE {})
           \cup (IF python_architecture(python) # "" THEN {"Architecture"} ELSE {}) |->
        CASE x = "Path" -> root
          [] x = "InterpreterPath" -> <<"python.exe">>
          [] x = "Description" ->
               IF kwargs.Description # None THEN kwargs.Description[1] ELSE basename(root)
          [] x = "WindowsInterpreterPath" -> <<"pythonw.exe">>
          [] x = "Version" -> python_version(python)
          [] x = "Architecture" -> python_architecture(python)
          [] OTHER -> kwargs[x][1]]

\* What from_python_installation returns once interpreter.resolve() ended as r.
Resolved(r) ==
    [ raised |-> r.raised, res |-> IF r.raised = "" THEN Some(r.self) ELSE None,
      reg |-> r.reg, used |-> 1, leaked |-> r.leaked ]

\* from_python_installation returning the constructed descriptor without
\* interpreter.resolve().
from_python_installation_Unresolved(directory, kwargs, rg, uuid1, io) ==
    IF directory = None
    THEN [raised |-> "TypeError", res |-> None, reg |-> rg, used |-> 0, leaked |-> 0]
    ELSE IF ~exists(abspath(join(abspath(directory[1]), <<"python.exe">>)))
    THEN [raised |-> "", res |-> None, reg |-> rg, used |-> 0, leaked |-> 0]
    ELSE [ raised |-> "",
           res |-> Some(_import(InstallationArgs(abspath(directory[1]),
                                    abspath(join(abspath(directory[1]), <<"python.exe">>)),
                                    kwargs),
                                uuid1)),
           reg |-> rg, used |-> 1, leaked |-> 0 ]

\* from_python_installation(directory, **kwargs).  directory is optional: None is
\* the Python value None.  used: identities drawn from uuid1.
from_python_installation(directory, kwargs, rg, uuid1, io) ==
    IF directory = None
    THEN [raised |-> "TypeError", res |-> None, reg |-> rg, used |-> 0, leaked |-> 0]
    ELSE IF ~exists(abspath(join(abspath(directory[1]), <<"python.exe">>)))
    THEN [raised |-> "", res |-> None, reg |-> rg, used |-> 0, leaked |-> 0]
    ELSE Resolved(resolve(
            _import(InstallationArgs(abspath(directory[1]),
                                     abspath(join(abspath(directory[1]), <<"python.exe">>)),
                                     kwargs),
                    uuid1),
            rg, io))

\* The local basedir of from_virtual_environment after both marker files were
\* read: bound says whether the name was ever assigned.
basedir(root) ==
    IF exists(abspath(join(root, <<"pyvenv.cfg">>))) /\ PyvenvHome(root) # None
    THEN [bound |-> TRUE, val |-> PyvenvHome(root)]
    ELSE IF exists(abspath(join(root, <<"Lib", "orig-prefix.txt">>)))
    THEN [bound |-> TRUE, val |-> OrigPrefixLine(root)]
    ELSE [bound |-> FALSE, val |-> None]

\* The keyword dictionary from_virtual_environment passes to the constructor.
EnvironmentArgs(root, python, kwargs, baseinterpretter) ==
    [x \in KwargKeys(kwargs)
           \cup {"Path", "BaseInterpreter", "InterpreterPath", "Description"}
           \cup (IF exists(join(root, <<"Scripts", "pythonw.exe">>))
                 THEN {"WindowsInterpreterPath"} ELSE {})
           \cup (IF python_version(python) # "" THEN {"Version"} ELSE {})
           \cup (IF python_architecture(python) # "" THEN {"Architecture"} ELSE {}) |->
        CASE x = "Path" -> root
          [] x = "BaseInterpreter" -> baseinterpretter.GUID
          [] x = "InterpreterPath" -> <<"Scripts", "python.exe">>
          [] x = "Description" ->
               IF kwargs.Description # None THEN kwargs.Description[1]
               ELSE basename(root) \o <<"(">> \o baseinterpretter.Description \o <<")">>
          [] x = "WindowsInterpreterPath" -> <<"Scripts", "pythonw.exe">>
          [] x = "Version" -> python_version(python)
          [] x = "Architecture" -> python_architecture(python)
          [] OTHER -> kwargs[x][1]]

\* from_virtual_environment once the base installation was resolved as b.
OnBase(root, python, kwargs, uuid1, b) ==
    IF b.raised # "" \/ b.res = None
    THEN [raised |-> b.raised, res |-> None, base |-> None, reg |-> b.reg,
          used |-> b.used, leaked |-> b.leaked]
    ELSE [ raised |-> "",
           res |-> Some(_import(EnvironmentArgs(root, python, kwargs, b.res[1]),
                                UuidObj(uuid1.hex + b.used))),
           base |-> b.res, reg |-> b.reg, used |-> b.used + 1, leaked |-> b.leaked ]

\* from_virtual_environment(directory, **kwargs).  base: the base installation
\* descriptor the factory resolved (None when it got none).
from_virtual_environment(directory, kwargs, rg, uuid1, io) ==
    IF ~exists(abspath(join(abspath(directory), <<"Scripts", "python.exe">>)))
    THEN [raised |-> "", res |-> None, base |-> None, reg |-> rg, used |-> 0, leaked |-> 0]
    ELSE IF ~exists(abspath(join(abspath(directory), <<"Lib", "orig-prefix.txt">>)))
            /\ ~exists(abspath(join(abspath(directory), <<"pyvenv.cfg">>)))
    THEN [raised |-> "", res |-> None, base |-> None, reg |-> rg, used |-> 0, leaked |-> 0]
    ELSE IF ~basedir(abspath(directory)).bound
    THEN [raised |-> "UnboundLocalError", res |-> None, base |-> None, reg |-> rg,
          used |-> 0, leaked |-> 0]
    ELSE OnBase(abspath(directory),
                abspath(join(abspath(directory), <<"Scripts", "python.exe">>)),
                kwargs, uuid1,
                from_python_installation(basedir(abspath(directory)).val, kwargs, rg, uuid1, io))

\* The configuration file: getdirs(section, 'interpreter_paths'),
\* getdirs(section, 'environment_paths') and get(section, 'description').
SectionNames == {"pythons", "both", "envs", "empty"}

Config ==
    [ name \in SectionNames |->
        CASE name = "pythons" ->
               [interpreter_paths |-> <<Missing, Python39, Py27>>,
                environment_paths |-> <<>>, description |-> None]
          [] name = "both" ->
               [interpreter_paths |-> <<Python39>>,
                environment_paths |-> <<EnvHome>>, description |-> Some(<<"Shared">>)]
          [] name = "envs" ->
               [interpreter_paths |-> <<>>,
                environment_paths |-> <<EnvBare, EnvHome>>, description |-> None]
          [] OTHER ->
               [interpreter_paths |-> <<>>, environment_paths |-> <<>>,
                description |-> None] ]

\* One factory call, reduced to what the list comprehension keeps.
Kept(r) ==
    [raised |-> r.raised, res |-> r.res, reg |-> r.reg, used |-> r.used, leaked |-> r.leaked]

Factory(branch, path, kwargs, rg, uuid1, io) ==
    IF branch = "install"
    THEN Kept(from_python_installation(Some(path), kwargs, rg, uuid1, io))
    ELSE Kept(from_virtual_environment(path, kwargs, rg, uuid1, io))

\* The list with r's descriptor put before the rest's.
Cons(r, rest) ==
    [ raised |-> rest.raised,
      res |-> IF rest.raised = "" THEN <<r.res>> \o rest.res ELSE <<>>,
      reg |-> rest.reg, used |-> r.used + rest.used, leaked |-> r.leaked + rest.leaked ]

\* [factory(p, **kwargs) for p in paths], from element i on; res holds one
\* optional descriptor per path.  An exception ends the comprehension.
\* Element is the comprehension once the factory returned r for element i.
RECURSIVE Comprehension(_, _, _, _, _, _, _)
Element(branch, paths, i, kwargs, uuid1, io, r) ==
    IF r.raised # ""
    THEN [raised |-> r.raised, res |-> <<>>, reg |-> r.reg, used |-> r.used, leaked |-> r.leaked]
    ELSE Cons(r, Comprehension(branch, paths, i + 1, kwargs, r.reg,
                               UuidObj(uuid1.hex + r.used), io))

Comprehension(branch, paths, i, kwargs, rg, uuid1, io) ==
    IF i > Len(paths)
    THEN [raised |-> "", res |-> <<>>, reg |-> rg, used |-> 0, leaked |-> 0]
    ELSE Element(branch, paths, i, kwargs, uuid1, io,
                 Factory(branch, paths[i], kwargs, rg, uuid1, io))

\* The descriptors filter(None, list) yields.
RECURSIVE FilterNone(_)
FilterNone(list) ==
    IF list = <<>> THEN <<>>
    ELSE (IF Head(list) = None THEN <<>> ELSE <<Head(list)[1]>>) \o FilterNone(Tail(list))

\* The loop "for i in interpreters: i.Description = config.get(...)".
Describe(interpreters, description) ==
    [i \in DOMAIN interpreters |->
        IF description # None
        THEN [interpreters[i] EXCEPT !.Description = description[1]]
        ELSE interpreters[i]]

\* What from_section returns once the comprehension ended as c.  lazy: filter()
\* returned a one-pass iterator, which the Description loop has consumed.
Returned(c, description, lazy) ==
    [ raised |-> c.raised,
      res |-> IF c.raised # "" \/ lazy THEN <<>>
              ELSE Describe(FilterNone(c.res), description),
      reg |-> c.reg, used |-> c.used, leaked |-> c.leaked ]

\* Which list from_section resolves.
Branch(sec) ==
    IF sec.interpreter_paths # <<>> THEN "install"
    ELSE IF sec.environment_paths # <<>> THEN "venv" ELSE "none"

\* from_section(config, section, **kwargs).  py is the major version of the
\* running Python: filter() returns a list under 2 and a one-pass iterator
\* under 3.  res: what the caller gets by iterating the returned value.
from_section(config, section, kwargs, rg, uuid1, io, py) ==
    IF section \notin DOMAIN config
    THEN [raised |-> "ValueError", res |-> <<>>, reg |-> rg, used |-> 0, leaked |-> 0]
    ELSE Returned(
           Comprehension(Branch(config[section]),
                         IF Branch(config[section]) = "install"
                         THEN config[section].interpreter_paths
                         ELSE IF Branch(config[section]) = "venv"
                         THEN config[section].environment_paths
                         ELSE <<>>,
                         1, kwargs, rg, uuid1, io),
           config[section].description,
           py = 3 /\ Branch(config[section]) # "none")

\* ------------------------------------------------------------ state machine
VARIABLES
    reg,       \* the registry: per version, which keys exist and the catalog's children
    runtime,   \* the Python running the program: [py, gc]
    d,         \* the descriptor the last factory call returned (optional)
    base,      \* the base installation descriptor from_virtual_environment resolved for d
    kind,      \* which factory made d: "none", "install", "venv", "registry", "init"
    nextUuid,  \* the next value of uuid.uuid1()
    handles,   \* registry handles open: opened, not closed, not yet finalized
    batch,     \* what iterating the value from_section returned yields (<<>> after other calls)
    last       \* the last operation: its arguments and its outcome

vars == <<reg, runtime, d, base, kind, nextUuid, handles, batch, last>>

\* Identities of the entries the catalog holds at the start.
GuidA == [hex |-> 1, str |-> TRUE, upper |-> TRUE]
GuidB == [hex |-> 2, str |-> TRUE, upper |-> FALSE]
FirstUuid == 3

\* The registries at the start: PTVS not installed for 14.0; for 15.0 PTVS
\* installed with no Interpreters key yet, or with a catalog written earlier.
Registries ==
    { [ keys |-> [v \in Versions |-> IF v = "15.0" THEN "tools" ELSE "absent"],
        entries |-> [v \in Versions |-> <<>>] ],
      [ keys |-> [v \in Versions |-> IF v = "15.0" THEN "interp" ELSE "absent"],
        entries |-> [v \in Versions |->
            IF v = "15.0"
            THEN << Entry(GuidA, <<"c:", "python39", "python.exe">>, <<"Python 3.9">>, "3.9", "x64"),
                    Entry(GuidB, Python39 \o <<"python.exe">>, <<"Python39">>, "", "x64") >>
            ELSE <<>>] ] }

\* CPython 3 (filter is lazy, handles are reference counted) and IronPython 2.7
\* (filter builds a list, handles wait for the collector).
Runtimes == { [py |-> 3, gc |-> "refcount"], [py |-> 2, gc |-> "tracing"] }

VS15 == [VSVersion |-> Some("15.0"), Description |-> None]
VS14 == [VSVersion |-> Some("14.0"), Description |-> None]

ResolveFaults ==
    { NoFault,
      [kind |-> "create", at |-> 0, field |-> 0],
      [kind |-> "info", at |-> 0, field |-> 0],
      [kind |-> "enum", at |-> 1, field |-> 0],
      [kind |-> "open", at |-> 1, field |-> 0],
      [kind |-> "query", at |-> 1, field |-> 4] }

FactoryFaults == {io \in ResolveFaults : io.kind \in {"none", "create", "open"}}

RegisterFaults ==
    { NoFault,
      [kind |-> "create", at |-> 0, field |-> 0],
      [kind |-> "set", at |-> 0, field |-> 4] }

LoadFaults ==
    { NoFault,
      [kind |-> "open", at |-> 0, field |-> 0],
      [kind |-> "query", at |-> 0, field |-> 1],
      [kind |-> "query", at |-> 0, field |-> 4] }

\* register creates at most MaxNewKeys keys the catalog did not hold at the start.
MaxNewKeys == 1

NewKeys(rg) ==
    Cardinality({<<v, i>> \in Versions \X (1..8) :
                    i <= Len(rg.entries[v]) /\ rg.entries[v][i].name[2].hex >= FirstUuid})

\* Children FromRegistryKey may name: the catalog's, and one past them.
LoadIndices == 1..3

NoOp ==
    [ op |-> "init", dir |-> <<>>, section |-> "", kw |-> NoKwargs, io |-> NoFault,
      raised |-> "", ret |-> FALSE, examined |-> 0, opened |-> 0 ]

Init ==
    /\ reg \in Registries
    /\ runtime \in Runtimes
    /\ d = None
    /\ base = None
    /\ kind = "none"
    /\ nextUuid = FirstUuid
    /\ handles = 0
    /\ batch = <<>>
    /\ last = NoOp

\* A handle never passed to CloseKey is closed by its finalizer: when the
\* operation returns under reference counting, when the collector runs otherwise.
AfterReturn(leaked) == IF runtime.gc = "refcount" THEN handles ELSE handles + leaked

\* PTVSInterpreter(**kwargs)
Construct(kwargs) ==
    /\ nextUuid <= MaxUuid
    /\ LET args == [x \in KwargKeys(kwargs) |-> kwargs[x][1]]
       IN d' = Some(_import(args, UuidObj(nextUuid)))
    /\ base' = None
    /\ kind' = "init"
    /\ nextUuid' = nextUuid + 1
    /\ last' = [NoOp EXCEPT !.op = "construct", !.kw = kwargs]
    /\ batch' = <<>>
    /\ UNCHANGED <<reg, runtime, handles>>

\* The caller's state once from_python_installation ended as r.
InstallReturns(dir, kwargs, io, r) ==
    /\ AfterReturn(r.leaked) <= MaxHandles
    /\ reg' = r.reg
    /\ d' = r.res
    /\ base' = None
    /\ kind' = IF r.res = None THEN "none" ELSE "install"
    /\ nextUuid' = nextUuid + r.used
    /\ handles' = AfterReturn(r.leaked)
    /\ batch' = <<>>
    /\ last' = [NoOp EXCEPT !.op = "install", !.dir = dir, !.kw = kwargs, !.io = io,
                            !.raised = r.raised, !.opened = r.leaked]
    /\ UNCHANGED runtime

FromPythonInstallation(dir, kwargs, io) ==
    /\ nextUuid <= MaxUuid
    /\ InstallReturns(dir, kwargs, io,
                      from_python_installation(Some(dir), kwargs, reg, UuidObj(nextUuid), io))

\* The caller's state once from_virtual_environment ended as r.
EnvironmentReturns(dir, kwargs, io, r) ==
    /\ AfterReturn(r.leaked) <= MaxHandles
    /\ reg' = r.reg
    /\ d' = r.res
    /\ base' = r.base
    /\ kind' = IF r.res = None THEN "none" ELSE "venv"
    /\ nextUuid' = nextUuid + r.used
    /\ handles' = AfterReturn(r.leaked)
    /\ batch' = <<>>
    /\ last' = [NoOp EXCEPT !.op = "venv", !.dir = dir, !.kw = kwargs, !.io = io,
                            !.raised = r.raised, !.opened = r.leaked]
    /\ UNCHANGED runtime

FromVirtualEnvironment(dir, kwargs, io) ==
    /\ nextUuid + 1 <= MaxUuid
    /\ EnvironmentReturns(dir, kwargs, io,
                          from_virtual_environment(dir, kwargs, reg, UuidObj(nextUuid), io))

\* The caller's state once from_section ended as r.
SectionReturns(section, kwargs, r) ==
    /\ AfterReturn(r.leaked) <= MaxHandles
    /\ reg' = r.reg
    /\ d' = None
    /\ base' = None
    /\ kind' = "none"
    /\ nextUuid' = nextUuid + r.used
    /\ handles' = AfterReturn(r.leaked)
    /\ batch' = r.res
    /\ last' = [NoOp EXCEPT !.op = "section", !.section = section, !.kw = kwargs,
                            !.raised = r.raised, !.opened = r.leaked]
    /\ UNCHANGED runtime

FromSection(section, kwargs) ==
    /\ nextUuid + 1 <= MaxUuid
    /\ SectionReturns(section, kwargs,
                      from_section(Config, section, kwargs, reg, UuidObj(nextUuid),
                                   NoFault, runtime.py))

\* The key of child i of a version's catalog (i past the end: no such key).
ChildKey(rg, vs, i) ==
    [ vs |-> vs,
      name |-> IF i <= Len(rg.entries[vs]) THEN rg.entries[vs][i].name
               ELSE Braced(GuidLower(UuidObj(0))) ]

\* The caller's state once from_registry_key ended as r.
LoadReturns(vs, i, io, r) ==
    /\ AfterReturn(r.leaked) <= MaxHandles
    /\ d' = r.res
    /\ base' = None
    /\ kind' = IF r.res = None THEN "none" ELSE "registry"
    /\ handles' = AfterReturn(r.leaked)
    /\ batch' = <<>>
    /\ last' = [NoOp EXCEPT !.op = "load", !.kw = [NoKwargs EXCEPT !.VSVersion = Some(vs)],
                            !.io = io, !.examined = i, !.opened = r.leaked]
    /\ UNCHANGED <<reg, runtime, nextUuid>>

FromRegistryKey(vs, i, io) ==
    LoadReturns(vs, i, io, from_registry_key(reg, ChildKey(reg, vs, i), io))

\* The caller's state once d.resolve() ended as r.
ResolveReturns(io, r) ==
    /\ AfterReturn(r.leaked) <= MaxHandles
    /\ reg' = r.reg
    /\ d' = Some(r.self)
    /\ handles' = AfterReturn(r.leaked)
    /\ batch' = <<>>
    /\ last' = [NoOp EXCEPT !.op = "resolve", !.io = io, !.raised = r.raised,
                            !.examined = r.examined, !.opened = r.leaked]
    /\ UNCHANGED <<runtime, base, kind, nextUuid>>

Resolve(io) ==
    /\ d # None
    /\ ResolveReturns(io, resolve(d[1], reg, io))

\* The caller's state once d.register() ended as r.
RegisterReturns(io, r) ==
    /\ AfterReturn(r.leaked) <= MaxHandles
    /\ NewKeys(r.reg) <= MaxNewKeys
    /\ reg' = r.reg
    /\ handles' = AfterReturn(r.leaked)
    /\ batch' = <<>>
    /\ last' = [NoOp EXCEPT !.op = "register", !.io = io, !.raised = r.raised,
                            !.ret = r.ret, !.examined = r.written, !.opened = r.leaked]
    /\ UNCHANGED <<runtime, d, base, kind, nextUuid>>

Register(io) ==
    /\ d # None
    /\ RegisterReturns(io, register(d[1], reg, io))

\* The collector of a tracing runtime finalizes the unreachable handles.
Collect ==
    /\ handles > 0
    /\ handles' = 0
    /\ UNCHANGED <<reg, runtime, d, base, kind, nextUuid, batch, last>>

Next ==
    \/ \E kwargs \in {VS14, VS15} : Construct(kwargs)
    \/ \E dir \in InstallDirs, kwargs \in {NoKwargs, VS14, VS15}, io \in FactoryFaults :
          FromPythonInstallation(dir, kwargs, io)
    \/ \E dir \in EnvDirs, kwargs \in {NoKwargs, VS15}, io \in {NoFault} :
          FromVirtualEnvironment(dir, kwargs, io)
    \/ \E section \in SectionNames \cup {"absent"}, kwargs \in {NoKwargs, VS15} :
          FromSection(section, kwargs)
    \/ \E vs \in {"15.0"}, i \in LoadIndices, io \in LoadFaults :
          FromRegistryKey(vs, i, io)
    \/ \E io \in ResolveFaults : Resolve(io)
    \/ \E io \in RegisterFaults : Register(io)
    \/ Collect

Spec == Init /\ [][Next]_vars

\* ------------------------------------------------------------------ claims
MinOf(S) == CHOOSE x \in S : \A y \in S : x <= y

\* The catalog entry stores an interpreter path case-insensitively equal to path.
Stores(entry, path) ==
    "InterpreterPath" \in entry.present /\ lower(entry.InterpreterPath) = lower(path)

Matching(rg, vs, path) ==
    {i \in 1..Len(rg.entries[vs]) : Stores(rg.entries[vs][i], path)}

EntryIdentity(rg, vs, i) == UuidObj(rg.entries[vs][i].name[2].hex)

\* The preconditions of resolve() and register() as the code checks them.
Ready(self, rg) == self.VSVersion # None /\ rg.keys[self.VSVersion[1]] # "absent"

BaseResolvable(dir) ==
    /\ basedir(dir).bound
    /\ basedir(dir).val # None
    /\ exists(basedir(dir).val[1] \o <<"python.exe">>)

\* C3: with the catalog ready for the version passed, from_virtual_environment
\* returns a descriptor exactly when Scripts/python.exe exists and the marker
\* files name a base installation, and returns None (raising nothing) otherwise.
C3_NoneNeverAnError ==
    (last.op = "venv" /\ last.kw = VS15) =>
        /\ last.raised = ""
        /\ (d # None) <=> (exists(last.dir \o <<"Scripts", "python.exe">>)
                           /\ BaseResolvable(last.dir))

\* The directory is an installation (an environment) a factory resolves.
Resolves(branch, dir) ==
    IF branch = "install" THEN exists(dir \o <<"python.exe">>)
    ELSE exists(dir \o <<"Scripts", "python.exe">>) /\ BaseResolvable(dir)

RECURSIVE Resolving(_, _)
Resolving(branch, paths) ==
    IF paths = <<>> THEN <<>>
    ELSE (IF Resolves(branch, Head(paths)) THEN <<Head(paths)>> ELSE <<>>)
         \o Resolving(branch, Tail(paths))

\* C4: when from_section returns, the sequence holds one descriptor per
\* directory that resolved, in list order, from interpreter_paths when that list
\* is not empty and from environment_paths otherwise, each with the section's
\* description when one is configured.
C4_OneDescriptorPerResolvedDirectory ==
    (last.op = "section" /\ last.section \in SectionNames /\ last.raised = "") =>
        LET sec == Config[last.section]
            paths == IF sec.interpreter_paths # <<>> THEN sec.interpreter_paths
                     ELSE sec.environment_paths
            want == Resolving(Branch(sec), paths)
        IN /\ Len(batch) = Len(want)
           /\ \A i \in 1..Len(batch) :
                 /\ batch[i].Path = want[i]
                 /\ (sec.description # None => batch[i].Description = sec.description[1])

\* C5: after register() returned True, from_registry_key on the key register
\* wrote returns a descriptor with the InterpreterAbsPath, Version, Architecture
\* and Description of the registered one.
C5_RegisterThenLoad ==
    (last.op = "register" /\ last.raised = "" /\ last.ret) =>
        LET r == from_registry_key(reg, interpreter_regkey_name(d[1]), NoFault)
        IN /\ r.res # None
           /\ r.res[1].InterpreterAbsPath = d[1].InterpreterAbsPath
           /\ r.res[1].Version = d[1].Version
           /\ r.res[1].Architecture = d[1].Architecture
           /\ r.res[1].Description = d[1].Description

C5_Witness ==
    /\ last.op = "register" /\ last.raised = "" /\ last.ret
    /\ kind = "venv"
    /\ d[1].Version = "2.7"

\* Two consecutive calls of from_python_installation on the same directory with
\* the same VSVersion, each returning a descriptor, the second leaving the
\* catalog as it found it.
SameInstallationTwice ==
    /\ last.op = "install" /\ last'.op = "install"
    /\ nextUuid' = nextUuid + 1
    /\ last'.dir = last.dir
    /\ last'.kw.VSVersion = last.kw.VSVersion
    /\ d # None /\ d' # None
    /\ reg' = reg

\* C6 as claimed: the two descriptors have the same GUID.
C6_SameIdentityTwice ==
    [][SameInstallationTwice => d'[1].GUID = d[1].GUID]_vars

\* C6 (amended): with no registry fault in either call, the two descriptors have
\* the same GUID exactly when a catalog entry stores the interpreter path, and
\* then it is the identity of the first such entry; when no entry stores it,
\* each call keeps the identity uuid1 generated for it, and the two differ.
C6_SameIdentityWhenAdopted ==
    [][ (SameInstallationTwice /\ last.kw.VSVersion # None
         /\ last.io = NoFault /\ last'.io = NoFault)
        => LET vs == last.kw.VSVersion[1]
               M == Matching(reg, vs, d[1].InterpreterAbsPath)
           IN IF M # {}
              THEN /\ d[1].GUID = EntryIdentity(reg, vs, MinOf(M))
                   /\ d'[1].GUID = d[1].GUID
              ELSE d'[1].GUID # d[1].GUID ]_vars

\* Two descriptors were constructed, the last by from_python_installation, which
\* adopted the identity of the first catalog entry.
C6_Witness ==
    /\ last.op = "install" /\ last.raised = "" /\ last.io = NoFault
    /\ d # None
    /\ nextUuid = FirstUuid + 2
    /\ d[1].GUID = UuidObj(1)
    /\ Matching(reg, "15.0", d[1].InterpreterAbsPath) # {}

\* C7: a virtual-environment descriptor's BaseInterpreter is the GUID of the base
\* installation descriptor resolved for it, and an installation descriptor's
\* BaseInterpreter is its own GUID, after the factory and after any later
\* resolve() and register().
C7_BaseInterpreterKept ==
    /\ (kind = "venv" /\ d # None) => d[1].BaseInterpreter = base[1].GUID
    /\ (kind = "install" /\ d # None) => d[1].BaseInterpreter = d[1].GUID

\* C8 as claimed: resolve() and register() raise when VSVersion is unset or the
\* Interpreters key of that version does not exist, changing nothing.
C8_RaisesWithoutInterpretersKey ==
    [][ (d # None /\ last'.op \in {"resolve", "register"}
         /\ (d[1].VSVersion = None \/ reg.keys[d[1].VSVersion[1]] # "interp"))
        => (last'.raised # "" /\ d' = d /\ reg' = reg) ]_vars

\* C8 (amended): resolve() and register() raise ValueError when VSVersion is
\* unset or the PythonTools key of that version (the parent of the Interpreters
\* key) does not exist, changing neither the descriptor nor the registry; when
\* only the Interpreters key is missing they raise no ValueError, and create
\* that key unless CreateKey fails.
C8_RaisesWithoutPythonToolsKey ==
    [][ (d # None /\ last'.op \in {"resolve", "register"})
        => /\ ~Ready(d[1], reg) => (last'.raised = "ValueError" /\ d' = d /\ reg' = reg)
           /\ Ready(d[1], reg) =>
                /\ last'.raised # "ValueError"
                /\ last'.io.kind # "create" => reg'.keys[d[1].VSVersion[1]] = "interp" ]_vars

\* resolve() raised ValueError for a descriptor whose VSVersion is set: the
\* PythonTools key of that version is missing.
C8_Witness ==
    /\ last.op = "resolve" /\ last.raised = "ValueError"
    /\ d # None /\ d[1].VSVersion = Some("14.0")
    /\ reg.keys["14.0"] = "absent"

\* The registry calls of resolve() that a fault can fail and the code guards.
EntryFaults == {"info", "enum", "open", "query"}

\* The entries other than the failing one that resolve() under fault io can
\* enumerate and that store path.
OtherMatches(rg, vs, path, io) ==
    IF io.kind \in {"open", "query"} THEN Matching(rg, vs, path) \ {io.at} ELSE {}

\* C9: with the preconditions met, resolve() under a fault of the enumeration
\* or of the load of a child raises nothing, treats the failing entry as a
\* non-match (GUID stays as it was unless it becomes the identity of another
\* entry, one that stores the interpreter path); register() raises
\* nothing, returns False under any CreateKey or SetValueEx fault, and returns
\* True only with all six values written.
C9_EntryFaultsNeverRaise ==
    [][ (d # None /\ Ready(d[1], reg))
        => /\ (last'.op = "resolve" /\ last'.io.kind \in EntryFaults) =>
                /\ last'.raised = ""
                /\ LET vs == d[1].VSVersion[1]
                       O == OtherMatches(reg, vs, d[1].InterpreterAbsPath, last'.io)
                   IN \/ d'[1].GUID = d[1].GUID
                      \/ \E i \in O : d'[1].GUID = EntryIdentity(reg, vs, i)
           /\ last'.op = "register" =>
                /\ last'.raised = ""
                /\ last'.io.kind \in {"create", "set"} => ~last'.ret
                /\ last'.ret => last'.examined = Len(RegisterFields)
      ]_vars

\* C10: no registry handle is open once an operation has returned or raised.
C10_NoHandleLeftOpen == handles = 0

====
